---- MODULE Spec2Model ----
(***************************************************************************)
(* Model of the makemeamixtape content pipeline:                           *)
(*   - scripts/import-artofthemix.js (the importer: slugify, parseDate,    *)
(*     extractMixIds, extractMixData, extractTracksFromHtml,               *)
(*     createMixFile, importMixes),                                        *)
(*   - the normalizer script (clean "&nbsp;" out of the persisted files),  *)
(*   - the content schema of the mixtapes collection.                      *)
(*                                                                         *)
(* Text is modelled by TLA+ strings, handled one character at a time with  *)
(* Len, SubSeq and \o.  A fetched page is modelled by the lexical elements *)
(* the importer's regular expressions pick out of it (see ListingPages and *)
(* DetailPages); everything the code does with the captured text is        *)
(* computed character by character.                                        *)
(***************************************************************************)
EXTENDS Integers, Sequences, FiniteSets, TLC

VARIABLES
    pc,             \* position of the running script
    page,           \* importMixes: loop variable of Step 1
    allMixIds,      \* importMixes: the collected ids
    i,              \* importMixes: loop variable of Step 2
    created,        \* importMixes: counter
    errors,         \* importMixes: counter
    files,          \* OUTPUT_DIR: file name (slug) -> parsed JSON content
    inFlight,       \* number of HTTP requests awaiting their response
    requests,       \* history: requests issued in this run
    delays,         \* history: pacing delays completed in this run
    detailRequests, \* history: detail-page requests issued in this run
    lastMix,        \* history: outcome of the last detail-page iteration
    writeCount,     \* history: fs.writeFileSync calls of createMixFile in this run
    cleaned,        \* history: no file was written since the last normalizer pass
    slugTitle,      \* slugify harness: the input title
    slugOut,        \* slugify harness: the result
    trkHtml,        \* extractTracksFromHtml harness: the input segment
    trkPrimary,     \* extractTracksFromHtml harness: tracks when the row loop ends
    trkOut          \* extractTracksFromHtml harness: the result

vars == <<pc, page, allMixIds, i, created, errors, files, inFlight, requests,
          delays, detailRequests, lastMix, writeCount, cleaned,
          slugTitle, slugOut, trkHtml, trkPrimary, trkOut>>

importerVars == <<page, allMixIds, i, created, errors, inFlight, requests,
                  delays, detailRequests, lastMix, writeCount>>
harnessVars == <<slugTitle, slugOut, trkHtml, trkPrimary, trkOut>>

(***************************************************************************)
(* Characters and strings                                                  *)
(***************************************************************************)
UpperAlpha == "ABCDEFGHIJKLMNOPQRSTUVWXYZ"
LowerAlpha == "abcdefghijklmnopqrstuvwxyz"
Digits == "0123456789"

CharAt(s, k) == SubSeq(s, k, k)

Chars(s) == {CharAt(s, k) : k \in 1..Len(s)}

UpperChars == Chars(UpperAlpha)
LowerChars == Chars(LowerAlpha)
DigitChars == Chars(Digits)

LowerOf ==
    [c \in UpperChars |->
        CharAt(LowerAlpha, CHOOSE k \in 1..Len(UpperAlpha) : CharAt(UpperAlpha, k) = c)]

\* String.prototype.toLowerCase, one character
LowerChar(c) == IF c \in UpperChars THEN LowerOf[c] ELSE c

\* the concatenation of the strings parts[lo..hi], by halves
RECURSIVE JoinRange(_, _, _)
JoinRange(parts, lo, hi) ==
    IF lo > hi THEN ""
    ELSE IF lo = hi THEN parts[lo]
    ELSE JoinRange(parts, lo, (lo + hi) \div 2)
         \o JoinRange(parts, (lo + hi) \div 2 + 1, hi)

Join(parts) == JoinRange(parts, 1, Len(parts))

\* String.prototype.toLowerCase
toLowerCase(s) == Join([k \in 1..Len(s) |-> LowerChar(CharAt(s, k))])

\* the characters \s matches, among those the model uses
IsSpace(c) == c = " "

RECURSIVE TrimStart(_)
TrimStart(s) ==
    IF s # "" /\ IsSpace(Head(s)) THEN TrimStart(Tail(s)) ELSE s

RECURSIVE TrimEnd(_)
TrimEnd(s) ==
    IF s # "" /\ IsSpace(CharAt(s, Len(s)))
    THEN TrimEnd(SubSeq(s, 1, Len(s) - 1))
    ELSE s

\* String.prototype.trim
trim(s) == TrimEnd(TrimStart(s))

StartsWith(s, p) == Len(s) >= Len(p) /\ SubSeq(s, 1, Len(p)) = p

EndsWith(s, p) == Len(s) >= Len(p) /\ SubSeq(s, Len(s) - Len(p) + 1, Len(s)) = p

\* s.replace(/tok/g, '') for a literal token: leftmost matches, one scan
RECURSIVE RemoveAll(_, _)
RemoveAll(s, tok) ==
    IF s = "" THEN ""
    ELSE IF StartsWith(s, tok) THEN RemoveAll(SubSeq(s, Len(tok) + 1, Len(s)), tok)
    ELSE Head(s) \o RemoveAll(Tail(s), tok)

\* String.prototype.padStart(2, '0')
padStart2(s) == IF Len(s) < 2 THEN "0" \o s ELSE s

\* c, n times
Rep(c, n) == Join([k \in 1..n |-> c])

(***************************************************************************)
(* slugify (import-artofthemix.js 28-35)                                   *)
(***************************************************************************)
SlugMaxLen == 80

IsSlugAlnum(c) == c \in LowerChars \cup DigitChars

\* .replace(/['']/g, '')
RemoveApostrophes(s) ==
    Join([k \in 1..Len(s) |-> IF CharAt(s, k) = "'" THEN "" ELSE CharAt(s, k)])

\* .replace(/[^a-z0-9]+/g, '-'): every maximal run becomes one hyphen, written
\* where the run starts
HyphenateRuns(s) ==
    Join([k \in 1..Len(s) |->
            IF IsSlugAlnum(CharAt(s, k)) THEN CharAt(s, k)
            ELSE IF k > 1 /\ ~IsSlugAlnum(CharAt(s, k - 1)) THEN ""
            ELSE "-"])

RECURSIVE StripLeadingHyphens(_)
StripLeadingHyphens(s) ==
    IF s # "" /\ Head(s) = "-" THEN StripLeadingHyphens(Tail(s)) ELSE s

RECURSIVE StripTrailingHyphens(_)
StripTrailingHyphens(s) ==
    IF s # "" /\ CharAt(s, Len(s)) = "-"
    THEN StripTrailingHyphens(SubSeq(s, 1, Len(s) - 1))
    ELSE s

\* .replace(/^-+|-+$/g, '')
TrimHyphens(s) == StripTrailingHyphens(StripLeadingHyphens(s))

\* .substring(0, n)
substring0(s, n) == IF Len(s) <= n THEN s ELSE SubSeq(s, 1, n)

slugify(title) ==
    substring0(
        TrimHyphens(HyphenateRuns(RemoveApostrophes(toLowerCase(title)))),
        SlugMaxLen)

(***************************************************************************)
(* Page elements.  A page body is the sequence of the pieces of markup the *)
(* importer's patterns can see, in source order:                           *)
(*   Row(c1, c2)  <tr><td>c1</td><td>c2</td>: one match of rowRegex with   *)
(*                its two captured cells,                                  *)
(*   Li(t)        <li>t</li>: one match of listItemRegex,                  *)
(*   Text(t)      text between them.                                       *)
(***************************************************************************)
Row(c1, c2) == [kind |-> "row", c1 |-> c1, c2 |-> c2]
Li(t) == [kind |-> "li", c1 |-> t, c2 |-> ""]
Text(t) == [kind |-> "text", c1 |-> t, c2 |-> ""]

\* .replace(/<[^>]+>/g, ''): a "<", one or more characters other than ">", a ">"
RECURSIVE FirstGt(_, _)
FirstGt(s, k) ==
    IF k > Len(s) THEN 0
    ELSE IF CharAt(s, k) = ">" THEN k
    ELSE FirstGt(s, k + 1)

RECURSIVE stripTags(_)
stripTags(s) ==
    IF s = "" THEN ""
    ELSE IF Head(s) = "<" /\ FirstGt(s, 2) >= 3
    THEN stripTags(SubSeq(s, FirstGt(s, 2) + 1, Len(s)))
    ELSE Head(s) \o stripTags(Tail(s))

\* the characters [-–—] matches, among those the model uses (ASCII only)
IsDash(c) == c = "-"

\* the characters [""] matches
IsQuote(c) == c = "\""

\* item.match(/^(.+?)\s*[-–—]\s*[""]?(.+?)[""]?$/): the length of group 1,
\* the shortest prefix after which optional blanks, a dash and a non-empty
\* remainder follow; 0 when the item does not match
RECURSIVE LiGroup1Len(_, _)
LiGroup1Len(item, k) ==
    IF k >= Len(item) THEN 0
    ELSE LET r == TrimStart(SubSeq(item, k + 1, Len(item)))
         IN  IF r # "" /\ IsDash(Head(r)) /\ Len(r) >= 2
             THEN k
             ELSE LiGroup1Len(item, k + 1)

\* group 2 of the same match: blanks and one opening quote are consumed
\* greedily, the lazy group leaves one closing quote to the pattern's tail
LiGroup2(item, k) ==
    LET r == TrimStart(SubSeq(item, k + 1, Len(item)))
        u == TrimStart(Tail(r))
        t == IF Len(u) >= 2 /\ IsQuote(Head(u)) THEN Tail(u) ELSE u
    IN  IF Len(t) >= 2 /\ IsQuote(CharAt(t, Len(t)))
        THEN SubSeq(t, 1, Len(t) - 1)
        ELSE t

\* extractTracksFromHtml, the while loop over rowRegex (lines 145-165)
RECURSIVE PrimaryTracksAlt(_)
PrimaryTracksAlt(html) ==
    IF html = <<>> THEN <<>>
    ELSE LET e == Head(html)
             artist == trim(stripTags(e.c1))
             song == trim(stripTags(e.c2))
         IN  IF e.kind # "row" THEN PrimaryTracksAlt(Tail(html))
             ELSE IF toLowerCase(artist) \in {"artist", "song"}
                     \/ toLowerCase(song) \in {"artist", "song"}
             THEN PrimaryTracksAlt(Tail(html))
             ELSE IF artist = "" \/ song = "" THEN PrimaryTracksAlt(Tail(html))
             ELSE <<[title |-> toLowerCase(song), artist |-> toLowerCase(artist)]>>
                  \o PrimaryTracksAlt(Tail(html))

RECURSIVE PrimaryTracks(_)
PrimaryTracks(html) ==
    IF html = <<>> THEN <<>>
    ELSE LET e == Head(html)
             artist == trim(stripTags(e.c1))
             song == trim(stripTags(e.c2))
         IN  IF e.kind # "row" THEN PrimaryTracks(Tail(html))
             ELSE IF toLowerCase(artist) = "artist" \/ toLowerCase(song) = "song"
             THEN PrimaryTracks(Tail(html))
             ELSE IF artist = "" \/ song = "" THEN PrimaryTracks(Tail(html))
             ELSE <<[title |-> toLowerCase(song), artist |-> toLowerCase(artist)]>>
                  \o PrimaryTracks(Tail(html))

\* extractTracksFromHtml, the fallback loop over listItemRegex (lines 168-181)
RECURSIVE FallbackTracks(_)
FallbackTracks(html) ==
    IF html = <<>> THEN <<>>
    ELSE LET e == Head(html)
             item == trim(stripTags(e.c1))
             k == LiGroup1Len(item, 1)
         IN  IF e.kind # "li" \/ k = 0 THEN FallbackTracks(Tail(html))
             ELSE <<[title |-> toLowerCase(trim(LiGroup2(item, k))),
                     artist |-> toLowerCase(trim(SubSeq(item, 1, k)))]>>
                  \o FallbackTracks(Tail(html))

extractTracksFromHtml(html) ==
    LET tracks == PrimaryTracks(html)
    IN  IF Len(tracks) = 0 THEN FallbackTracks(html) ELSE tracks

(***************************************************************************)
(* parseDate, extractMixIds, extractMixData, createMixFile                 *)
(***************************************************************************)
\* String.prototype.split(sep) for a one-character separator
RECURSIVE SplitAcc(_, _, _)
SplitAcc(s, sep, cur) ==
    IF s = "" THEN <<cur>>
    ELSE IF Head(s) = sep THEN <<cur>> \o SplitAcc(Tail(s), sep, "")
    ELSE SplitAcc(Tail(s), sep, cur \o Head(s))

split(s, sep) == SplitAcc(s, sep, "")

\* "M/D/YYYY" to "YYYY-MM-DD"
parseDate(dateStr) ==
    LET parts == split(dateStr, "/")
    IN  parts[3] \o "-" \o padStart2(parts[1]) \o "-" \o padStart2(parts[2])

Includes(seq, x) == \E k \in 1..Len(seq) : seq[k] = x

\* html is the sequence of ids matched by /\/mix\/(\d+)/g, in source order
RECURSIVE ExtractIdsAcc(_, _)
ExtractIdsAcc(html, mixIds) ==
    IF html = <<>> THEN mixIds
    ELSE IF Includes(mixIds, Head(html)) THEN ExtractIdsAcc(Tail(html), mixIds)
    ELSE ExtractIdsAcc(Tail(html), Append(mixIds, Head(html)))

extractMixIds(html) == ExtractIdsAcc(html, <<>>)

\* .replace(/\s+/g, ' ')
CollapseSpaces(s) ==
    Join([k \in 1..Len(s) |->
            IF ~IsSpace(CharAt(s, k)) THEN CharAt(s, k)
            ELSE IF k > 1 /\ IsSpace(CharAt(s, k - 1)) THEN ""
            ELSE " "])

\* .replace(/\s+by\s+natalyesaurus\.?$/i, '')
StripAuthorSuffix(s) ==
    LET low == toLowerCase(s)
        a == IF EndsWith(low, ".") THEN SubSeq(low, 1, Len(low) - 1) ELSE low
        b == IF EndsWith(a, "natalyesaurus")
             THEN SubSeq(a, 1, Len(a) - Len("natalyesaurus")) ELSE a
        c == TrimEnd(b)
        d == IF EndsWith(c, "by") THEN SubSeq(c, 1, Len(c) - 2) ELSE c
        e == TrimEnd(d)
    IN  IF /\ EndsWith(a, "natalyesaurus")
           /\ Len(c) < Len(b)
           /\ EndsWith(c, "by")
           /\ Len(e) < Len(d)
        THEN SubSeq(s, 1, Len(e))
        ELSE s

\* /Side\s*A/i.test(s), /Side\s*B/i.test(s): letter is "a" or "b"
RECURSIVE ContainsSideLow(_, _)
ContainsSideLow(low, letter) ==
    IF Len(low) < 5 THEN FALSE
    ELSE \/ /\ SubSeq(low, 1, 4) = "side"
            /\ StartsWith(TrimStart(SubSeq(low, 5, Len(low))), letter)
         \/ ContainsSideLow(Tail(low), letter)

ContainsSide(s, letter) == ContainsSideLow(toLowerCase(s), letter)

ElemHasSide(e, letter) == ContainsSide(e.c1, letter) \/ ContainsSide(e.c2, letter)

\* the pages of the model carry their side markers in the body
HasSide(body, letter) == \E k \in 1..Len(body) : ElemHasSide(body[k], letter)

\* html.search(/Side\s*B/i), as the index of the element the match lies in
RECURSIVE FirstSideB(_, _)
FirstSideB(body, k) ==
    IF k > Len(body) \/ ElemHasSide(body[k], "b") THEN k ELSE FirstSideB(body, k + 1)

SideBIndex(body) == FirstSideB(body, 1)

\* html.substring(0, sideBIndex): a row or list item the cut falls in is
\* left without its closing tags and matches no pattern
SideAHtml(body) == SubSeq(body, 1, SideBIndex(body) - 1)

\* html.substring(sideBIndex)
SideBHtml(body) ==
    LET k == SideBIndex(body)
    IN  IF body[k].kind = "text"
        THEN SubSeq(body, k, Len(body))
        ELSE SubSeq(body, k + 1, Len(body))

\* A detail page html: the captures of the title, date, format and dedication
\* patterns (<<>> when the pattern does not match) and the body elements.
extractTitle(html) ==
    IF html.titleMatch = <<>> THEN ""
    ELSE StripAuthorSuffix(CollapseSpaces(trim(html.titleMatch[1])))

extractDate(html) ==
    IF html.dateMatch = <<>> THEN "" ELSE parseDate(html.dateMatch[1])

extractFormat(html) ==
    IF html.formatMatch = <<>> THEN "cd" ELSE toLowerCase(html.formatMatch[1])

extractNotes(html) ==
    IF html.dedicationMatch = <<>> THEN ""
    ELSE "for " \o toLowerCase(trim(html.dedicationMatch[1]))

\* isCassette && hasSideA && hasSideB (lines 114-118)
HasBothSides(html) ==
    LET hasSideA == HasSide(html.body, "a")
        hasSideB == HasSide(html.body, "b")
        isCassette == extractFormat(html) = "cassette" \/ (hasSideA /\ hasSideB)
    IN  isCassette /\ hasSideA /\ hasSideB

extractMixDataAlt(html, mixId) ==
    LET sides == HasBothSides(html)
        sideA == IF sides THEN extractTracksFromHtml(SideAHtml(html.body)) ELSE <<>>
        sideB == IF sides THEN extractTracksFromHtml(SideBHtml(html.body)) ELSE <<>>
    IN  [id |-> mixId,
         title |-> extractTitle(html),
         date |-> extractDate(html),
         format |-> IF sides THEN "cassette" ELSE extractFormat(html),
         notes |-> extractNotes(html),
         tracks |-> IF sides THEN sideA ELSE extractTracksFromHtml(html.body),
         hasSides |-> sides,
         sideA |-> sideA,
         sideB |-> sideB]

\* hasSides is "sideA and sideB are not null"
extractMixData(html, mixId) ==
    LET sides == HasBothSides(html)
        sideA == IF sides THEN extractTracksFromHtml(SideAHtml(html.body)) ELSE <<>>
        sideB == IF sides THEN extractTracksFromHtml(SideBHtml(html.body)) ELSE <<>>
    IN  [id |-> mixId,
         title |-> extractTitle(html),
         date |-> extractDate(html),
         format |-> IF sides THEN "cassette" ELSE extractFormat(html),
         notes |-> extractNotes(html),
         tracks |-> IF sides THEN sideA \o sideB
                    ELSE extractTracksFromHtml(html.body),
         hasSides |-> sides,
         sideA |-> sideA,
         sideB |-> sideB]

\* the object createMixFile serializes (lines 191-204)
jsonData(mixData) ==
    LET base == [title |-> toLowerCase(mixData.title),
                 date |-> mixData.date,
                 format |-> mixData.format,
                 notes |-> mixData.notes,
                 artOfTheMixUrl |-> "https://www.artofthemix.org/mix/" \o mixData.id,
                 tracks |-> mixData.tracks]
    IN  IF mixData.format = "cassette" /\ mixData.hasSides
        THEN [k \in DOMAIN base \cup {"sideA", "sideB"} |->
                 IF k = "sideA" THEN mixData.sideA
                 ELSE IF k = "sideB" THEN mixData.sideB
                 ELSE base[k]]
        ELSE base

\* fs.writeFileSync(path.join(OUTPUT_DIR, slug + '.json'), ...): the directory
\* after the write.  A file is held as the object its JSON text denotes.
createMixFile(dir, mixData) ==
    LET slug == slugify(mixData.title)
    IN  [f \in DOMAIN dir \cup {slug} |->
            IF f = slug THEN jsonData(mixData) ELSE dir[f]]

\* the validation gate of importMixes (line 269)
IsValidMixAlt(mixData) == mixData.title # ""

IsValidMix(mixData) == mixData.title # "" /\ Len(mixData.tracks) > 0

(***************************************************************************)
(* The normalizer script                                                   *)
(***************************************************************************)
NbspToken == "&nbsp;"

\* s.replace(/&nbsp;/g, '').trim()
clean(s) == trim(RemoveAll(s, NbspToken))

cleanTracks(tracks) ==
    [k \in 1..Len(tracks) |->
        [title |-> clean(tracks[k].title), artist |-> clean(tracks[k].artist)]]

\* a file whose text JSON.parse rejects
Malformed == [malformed |-> TRUE]

\* the body of the for loop: the file's content after the pass
cleanFile(data) ==
    IF data = Malformed THEN data
    ELSE [k \in DOMAIN data |->
            IF k \in {"tracks", "sideA", "sideB"} THEN cleanTracks(data[k])
            ELSE IF k = "title" /\ data[k] # "" THEN clean(data[k])
            ELSE data[k]]

normalize(dir) == [f \in DOMAIN dir |-> cleanFile(dir[f])]

(***************************************************************************)
(* The content schema of the mixtapes collection                           *)
(***************************************************************************)
FormatEnum == {"cd", "cassette", "playlist"}

RECURSIVE ToInt(_)
ToInt(s) ==
    IF s = "" THEN 0
    ELSE 10 * ToInt(SubSeq(s, 1, Len(s) - 1))
         + (CHOOSE d \in 0..9 : CharAt(Digits, d + 1) = CharAt(s, Len(s)))

AllDigits(s) == \A k \in 1..Len(s) : CharAt(s, k) \in DigitChars

\* z.coerce.date(): new Date(s) is a valid date.  The importer writes "" or
\* YYYY-MM-DD; of the latter the model uses no day beyond its month's length.
DateCoercible(s) ==
    /\ Len(s) = 10
    /\ CharAt(s, 5) = "-"
    /\ CharAt(s, 8) = "-"
    /\ AllDigits(SubSeq(s, 1, 4))
    /\ AllDigits(SubSeq(s, 6, 7))
    /\ AllDigits(SubSeq(s, 9, 10))
    /\ ToInt(SubSeq(s, 6, 7)) \in 1..12
    /\ ToInt(SubSeq(s, 9, 10)) \in 1..31

TrackSchemaAccepts(tracks) ==
    \A k \in 1..Len(tracks) : {"title", "artist"} \subseteq DOMAIN tracks[k]

SchemaAccepts(data) ==
    /\ data # Malformed
    /\ {"title", "date", "tracks"} \subseteq DOMAIN data
    /\ DateCoercible(data.date)
    /\ "format" \in DOMAIN data => data.format \in FormatEnum
    /\ TrackSchemaAccepts(data.tracks)
    /\ "sideA" \in DOMAIN data => TrackSchemaAccepts(data.sideA)
    /\ "sideB" \in DOMAIN data => TrackSchemaAccepts(data.sideB)

(***************************************************************************)
(* The pages the origin may serve                                          *)
(***************************************************************************)
totalPages == 44

MaxIds == 2     \* the listing pages name at most this many ids in one run
MaxOcc == 3     \* a listing page holds at most this many /mix/<id> links

Ids == {"7", "12"}

RECURSIVE SeqsUpTo(_, _)
SeqsUpTo(S, n) ==
    IF n = 0 THEN {<<>>}
    ELSE SeqsUpTo(S, n - 1)
         \cup {Append(q, x) : q \in {r \in SeqsUpTo(S, n - 1) : Len(r) = n - 1}, x \in S}

ListingPages == SeqsUpTo(Ids, MaxOcc)

DetailPage(t, d, f, n, b) ==
    [titleMatch |-> t, dateMatch |-> d, formatMatch |-> f,
     dedicationMatch |-> n, body |-> b]

HeaderRow == Row("Artist", "Song")

\* the detail pages the origin may serve at /mix/<id>
PageAt ==
    [id \in Ids |->
        IF id = "7" THEN {
            \* no title pattern matches
            DetailPage(<<>>, <<"7/4/1999">>, <<>>, <<>>, <<Row("Air", "Sea")>>),
            \* a complete CD page
            DetailPage(<<" Mix  A by Natalyesaurus.">>, <<"7/4/1999">>, <<"CD">>,
                       <<"Sam ">>, <<HeaderRow, Row("Air", "<b>Sea</b>")>>),
            \* no Submit Date / Submitted label
            DetailPage(<<"Mix A">>, <<>>, <<"Playlist">>, <<>>,
                       <<Row("Air&nbsp;", "Sea")>>),
            \* the entity token as the whole heading and as a whole cell
            DetailPage(<<"&nbsp;">>, <<"7/4/1999">>, <<>>, <<>>,
                       <<Row("&nbsp;", "Sea")>>)
        } ELSE {
            \* a blank heading
            DetailPage(<<"  ">>, <<"7/4/1999">>, <<>>, <<>>, <<Row("Air", "Sea")>>),
            \* a table with its header row only
            DetailPage(<<"Tape">>, <<"7/4/1999">>, <<"CD">>, <<>>, <<HeaderRow>>),
            \* a cassette with both sides
            DetailPage(<<"Tape">>, <<"12/31/2003">>, <<"Cassette">>, <<>>,
                       <<Text("Side A"), Row("Can", "Oh"),
                         Text("SIDE  B"), Row("Neu!", "&nbsp;E2")>>),
            \* side markers without a format label, a list item on side A,
            \* the first "Side B" match inside a table cell
            DetailPage(<<"Tape">>, <<"12/31/2003">>, <<>>, <<>>,
                       <<Text("sidea"), Li("Can - \"Oh\""),
                         Row("Air", "Side by"), Row("Neu!", "E2")>>),
            \* a cassette label without side markers
            DetailPage(<<"Tape">>, <<"12/31/2003">>, <<"cassette">>, <<>>,
                       <<Row("Can", "Oh")>>)
        }]

DetailPages == UNION {PageAt[id] : id \in Ids}

(***************************************************************************)
(* importMixes                                                             *)
(***************************************************************************)
NoOutcome == [kind |-> "none"]

InitImporter ==
    /\ page = 1
    /\ allMixIds = <<>>
    /\ i = 0
    /\ created = 0
    /\ errors = 0
    /\ inFlight = 0
    /\ requests = 0
    /\ delays = 0
    /\ detailRequests = 0
    /\ lastMix = NoOutcome
    /\ writeCount = 0

InitHarness ==
    /\ slugTitle = ""
    /\ slugOut = ""
    /\ trkHtml = <<>>
    /\ trkPrimary = <<>>
    /\ trkOut = <<>>

Init ==
    /\ pc = "idle"
    /\ files = <<>>
    /\ cleaned = FALSE
    /\ InitImporter
    /\ InitHarness

\* node scripts/import-artofthemix.js, up to the first loop test
ImportStart ==
    /\ pc \in {"idle", "done"}
    /\ pc' = "p1_loop"
    /\ page' = 1
    /\ allMixIds' = <<>>
    /\ i' = 0
    /\ created' = 0
    /\ errors' = 0
    /\ inFlight' = 0
    /\ requests' = 0
    /\ delays' = 0
    /\ detailRequests' = 0
    /\ lastMix' = NoOutcome
    /\ writeCount' = 0
    /\ UNCHANGED <<files, cleaned, harnessVars>>

\* Step 1: page <= totalPages, fetchPage issues its request
P1Request ==
    /\ pc = "p1_loop"
    /\ page <= totalPages
    /\ pc' = "p1_fetch"
    /\ inFlight' = inFlight + 1
    /\ requests' = requests + 1
    /\ UNCHANGED <<page, allMixIds, i, created, errors, delays, detailRequests,
                   lastMix, writeCount, files, cleaned, harnessVars>>

\* the response is ok: extractMixIds, allMixIds.push(...ids), then delay()
P1ResponseOk(html) ==
    /\ pc = "p1_fetch"
    /\ Len(allMixIds) + Len(extractMixIds(html)) <= MaxIds
    /\ pc' = "p1_delay"
    /\ inFlight' = inFlight - 1
    /\ allMixIds' = allMixIds \o extractMixIds(html)
    /\ UNCHANGED <<page, i, created, errors, requests, delays, detailRequests,
                   lastMix, writeCount, files, cleaned, harnessVars>>

P1ResponseFailAlt ==
    /\ pc = "p1_fetch"
    /\ pc' = "p1_loop"
    /\ page' = page + 1
    /\ inFlight' = inFlight - 1
    /\ UNCHANGED <<allMixIds, i, created, errors, requests, delays, detailRequests,
                   lastMix, writeCount, files, cleaned, harnessVars>>

\* fetchPage throws: the catch logs, then delay()
P1ResponseFail ==
    /\ pc = "p1_fetch"
    /\ pc' = "p1_delay"
    /\ inFlight' = inFlight - 1
    /\ UNCHANGED <<page, allMixIds, i, created, errors, requests, delays,
                   detailRequests, lastMix, writeCount, files, cleaned, harnessVars>>

\* the timer of delay(DELAY_MS) fires: page++
P1DelayDone ==
    /\ pc = "p1_delay"
    /\ pc' = "p1_loop"
    /\ page' = page + 1
    /\ delays' = delays + 1
    /\ UNCHANGED <<allMixIds, i, created, errors, inFlight, requests,
                   detailRequests, lastMix, writeCount, files, cleaned, harnessVars>>

\* page > totalPages: Step 2 starts
P1Exit ==
    /\ pc = "p1_loop"
    /\ page > totalPages
    /\ pc' = "p2_loop"
    /\ i' = 0
    /\ created' = 0
    /\ errors' = 0
    /\ UNCHANGED <<page, allMixIds, inFlight, requests, delays, detailRequests,
                   lastMix, writeCount, files, cleaned, harnessVars>>

\* Step 2: i < allMixIds.length, fetchPage issues its request
P2Request ==
    /\ pc = "p2_loop"
    /\ i < Len(allMixIds)
    /\ pc' = "p2_fetch"
    /\ inFlight' = inFlight + 1
    /\ requests' = requests + 1
    /\ detailRequests' = detailRequests + 1
    /\ UNCHANGED <<page, allMixIds, i, created, errors, delays, lastMix,
                   writeCount, files, cleaned, harnessVars>>

\* the response is ok: extractMixData, the gate, createMixFile, then delay()
P2ResponseOk(html) ==
    LET mixData == extractMixData(html, allMixIds[i + 1])
    IN  /\ pc = "p2_fetch"
        /\ html \in PageAt[allMixIds[i + 1]]
        /\ pc' = "p2_delay"
        /\ inFlight' = inFlight - 1
        /\ lastMix' = [kind |-> "ok", mix |-> mixData]
        /\ IF IsValidMix(mixData)
           THEN /\ files' = createMixFile(files, mixData)
                /\ writeCount' = writeCount + 1
                /\ cleaned' = FALSE
                /\ created' = created + 1
                /\ UNCHANGED errors
           ELSE /\ errors' = errors + 1
                /\ UNCHANGED <<files, writeCount, cleaned, created>>
        /\ UNCHANGED <<page, allMixIds, i, requests, delays, detailRequests,
                       harnessVars>>

P2ResponseFailAlt ==
    /\ pc = "p2_fetch"
    /\ pc' = "done"
    /\ inFlight' = inFlight - 1
    /\ lastMix' = [kind |-> "failed"]
    /\ errors' = errors + 1
    /\ UNCHANGED <<page, allMixIds, i, created, requests, delays, detailRequests,
                   writeCount, files, cleaned, harnessVars>>

\* fetchPage throws: the catch counts the error, then delay()
P2ResponseFail ==
    /\ pc = "p2_fetch"
    /\ pc' = "p2_delay"
    /\ inFlight' = inFlight - 1
    /\ lastMix' = [kind |-> "failed"]
    /\ errors' = errors + 1
    /\ UNCHANGED <<page, allMixIds, i, created, requests, delays, detailRequests,
                   writeCount, files, cleaned, harnessVars>>

\* the timer of delay(DELAY_MS) fires: i++
P2DelayDone ==
    /\ pc = "p2_delay"
    /\ pc' = "p2_loop"
    /\ i' = i + 1
    /\ delays' = delays + 1
    /\ UNCHANGED <<page, allMixIds, created, errors, inFlight, requests,
                   detailRequests, lastMix, writeCount, files, cleaned, harnessVars>>

\* i = allMixIds.length: the summary is printed
P2Exit ==
    /\ pc = "p2_loop"
    /\ i >= Len(allMixIds)
    /\ pc' = "done"
    /\ UNCHANGED <<importerVars, files, cleaned, harnessVars>>

\* the normalizer script, run while the importer is not running
Normalizer ==
    /\ pc \in {"idle", "done"}
    /\ files' = normalize(files)
    /\ cleaned' = TRUE
    /\ UNCHANGED <<pc, importerVars, harnessVars>>

Next ==
    \/ ImportStart
    \/ P1Request
    \/ \E html \in ListingPages : P1ResponseOk(html)
    \/ P1ResponseFail
    \/ P1DelayDone
    \/ P1Exit
    \/ P2Request
    \/ \E html \in DetailPages : P2ResponseOk(html)
    \/ P2ResponseFail
    \/ P2DelayDone
    \/ P2Exit
    \/ Normalizer

Spec == Init /\ [][Next]_vars

(***************************************************************************)
(* slugify on its own: titles around the length limit                      *)
(***************************************************************************)
MaxSlugPad == 2     \* titles run up to this many characters past the limit

SlugRunLens == (0..MaxSlugPad) \cup ((SlugMaxLen - 3)..(SlugMaxLen + MaxSlugPad))

SlugTitles ==
    {pre \o Rep("a", n) \o mid \o suf :
        pre \in {"", " ", "It's "},
        n \in SlugRunLens,
        mid \in {"", " ", "!! ", "'", "-", "B", "9"},
        suf \in {"", "b", " b", "--"}}

InitSlug ==
    /\ pc = "slug_in"
    /\ files = <<>>
    /\ cleaned = FALSE
    /\ InitImporter
    /\ slugTitle \in SlugTitles
    /\ slugOut = ""
    /\ trkHtml = <<>>
    /\ trkPrimary = <<>>
    /\ trkOut = <<>>

SlugifyCall ==
    /\ pc = "slug_in"
    /\ pc' = "slug_out"
    /\ slugOut' = slugify(slugTitle)
    /\ UNCHANGED <<importerVars, files, cleaned, slugTitle, trkHtml, trkPrimary, trkOut>>

NextSlug == SlugifyCall

SpecSlug == InitSlug /\ [][NextSlug]_vars

(***************************************************************************)
(* extractTracksFromHtml on its own                                        *)
(***************************************************************************)
MaxRows == 2        \* a segment holds at most this many rows and list items

TrackCells == {"Artist", "SONG", " ", "Air", "<i>Sea</i> "}

TrackElems ==
    {Row(c1, c2) : c1 \in TrackCells, c2 \in TrackCells}
        \cup {Li("Can - Oh"), Li("Can")}

TrackSegments == SeqsUpTo(TrackElems, MaxRows)

InitTracks ==
    /\ pc = "trk_in"
    /\ files = <<>>
    /\ cleaned = FALSE
    /\ InitImporter
    /\ slugTitle = ""
    /\ slugOut = ""
    /\ trkHtml \in TrackSegments
    /\ trkPrimary = <<>>
    /\ trkOut = <<>>

ExtractTracksCall ==
    /\ pc = "trk_in"
    /\ pc' = "trk_out"
    /\ trkPrimary' = PrimaryTracks(trkHtml)
    /\ trkOut' = extractTracksFromHtml(trkHtml)
    /\ UNCHANGED <<importerVars, files, cleaned, slugTitle, slugOut, trkHtml>>

NextTracks == ExtractTracksCall

SpecTracks == InitTracks /\ [][NextTracks]_vars

(***************************************************************************)
(* The normalizer on its own, over a directory the importer may have left: *)
(* titles and track fields are lower-case, trimmed and not empty           *)
(***************************************************************************)
MaxPieces == 3      \* a field is made of at most this many pieces

NormPieces == {"&nb", "sp;", "&nbsp;", " ", "x"}

NormStrings ==
    {s \in {Join(q) : q \in SeqsUpTo(NormPieces, MaxPieces)} : s # "" /\ trim(s) = s}

ImportedFile(title, trackTitle) ==
    [title |-> title,
     date |-> "1999-07-04",
     format |-> "cd",
     notes |-> "",
     artOfTheMixUrl |-> "https://www.artofthemix.org/mix/7",
     tracks |-> <<[title |-> trackTitle, artist |-> "air"]>>]

InitNorm ==
    /\ pc = "idle"
    /\ cleaned = FALSE
    /\ InitImporter
    /\ InitHarness
    /\ \E t \in NormStrings, a \in NormStrings :
           files = [f \in {slugify(t), "broken"} |->
                       IF f = "broken" THEN Malformed ELSE ImportedFile(t, a)]

NextNorm == Normalizer

SpecNorm == InitNorm /\ [][NextNorm]_vars

(***************************************************************************)
(* Properties                                                              *)
(***************************************************************************)
FileDatas == {files[f] : f \in {g \in DOMAIN files : files[g] # Malformed}}

\* C1: in Step 2 a file is written only for an extracted record with a
\* non-empty title and at least one track; a record with an empty title or no
\* track is not written and is counted as an error.
C1_ValidationGate ==
    [][(pc = "p2_fetch" /\ lastMix'.kind = "ok") =>
          IF lastMix'.mix.title # "" /\ Len(lastMix'.mix.tracks) >= 1
          THEN /\ writeCount' = writeCount + 1
               /\ slugify(lastMix'.mix.title) \in DOMAIN files'
               /\ created' = created + 1
               /\ errors' = errors
          ELSE /\ writeCount' = writeCount
               /\ files' = files
               /\ created' = created
               /\ errors' = errors + 1]_vars

\* a record with a title and no track has just been rejected, after an
\* earlier id of the run was written
C1_Witness ==
    /\ pc = "p2_delay"
    /\ lastMix.kind = "ok"
    /\ lastMix.mix.title # ""
    /\ Len(lastMix.mix.tracks) = 0
    /\ writeCount = 1
    /\ errors = 1

\* C2: a second normalizer pass leaves every file as the first pass left it.
C2_NormalizerIdempotent == [][(cleaned /\ cleaned') => files' = files]_vars

TextSafe(s) == \A k \in 1..Len(s) : CharAt(s, k) \in LowerChars \cup DigitChars \cup {"-"}

\* C3: a slug holds only lower-case letters, digits and hyphens, neither
\* starts nor ends with a hyphen, and is at most 80 characters long.
C3_SlugSafe ==
    pc = "slug_out" =>
        /\ TextSafe(slugOut)
        /\ ~StartsWith(slugOut, "-")
        /\ ~EndsWith(slugOut, "-")
        /\ Len(slugOut) <= 80

\* C4: a failed detail-page fetch adds exactly one to the error counter,
\* writes no file and goes on to the pacing delay; when the run ends every
\* collected id was requested and created + errors is their number.
C4_FetchFailureCounted ==
    /\ [][(pc = "p2_fetch" /\ lastMix'.kind = "failed") =>
             /\ errors' = errors + 1
             /\ created' = created
             /\ files' = files
             /\ writeCount' = writeCount
             /\ pc' = "p2_delay"]_vars
    /\ [](pc = "done" =>
             /\ detailRequests = Len(allMixIds)
             /\ created + errors = Len(allMixIds))

\* the fetch for the first id failed and the second id is being fetched
C4_Witness ==
    /\ pc = "p2_fetch"
    /\ i = 1
    /\ lastMix.kind = "failed"
    /\ errors = 1
    /\ inFlight = 1

\* C5: the collected ids hold each identifier at most once.
C5_NoDuplicateIds ==
    \A j, k \in 1..Len(allMixIds) : j # k => allMixIds[j] # allMixIds[k]

\* C6: every record in the output directory is accepted by the content schema.
C6_RecordsSchemaValid == \A data \in FileDatas : SchemaAccepts(data)

\* C7: in every persisted record that has sideA and sideB, tracks is sideA
\* followed by sideB.
C7_TracksAreSides ==
    \A data \in FileDatas :
        {"sideA", "sideB"} \subseteq DOMAIN data =>
            data.tracks = data.sideA \o data.sideB

\* a two-sided record the normalizer has rewritten
C7_Witness ==
    /\ cleaned
    /\ \E data \in FileDatas :
          /\ {"sideA", "sideB"} \subseteq DOMAIN data
          /\ Len(data.sideA) >= 1
          /\ Len(data.sideB) >= 1
          /\ data.sideB[1].title = "e2"

CellText(c) == toLowerCase(trim(stripTags(c)))

\* out holds one track for every row of html that Skip does not skip, in
\* source order, and nothing else
TracksMatch(out, html, Skip(_)) ==
    LET kept == {k \in 1..Len(html) : html[k].kind = "row" /\ ~Skip(html[k])}
    IN  /\ Len(out) = Cardinality(kept)
        /\ \E at \in [1..Len(out) -> kept] :
              /\ \A j, k \in 1..Len(out) : j < k => at[j] < at[k]
              /\ \A j \in 1..Len(out) :
                    out[j] = [title |-> CellText(html[at[j]].c2),
                              artist |-> CellText(html[at[j]].c1)]

\* either cell is one of the two header labels, or either cell is empty
SkipEitherLabel(e) ==
    \/ CellText(e.c1) \in {"artist", "song"}
    \/ CellText(e.c2) \in {"artist", "song"}
    \/ CellText(e.c1) = ""
    \/ CellText(e.c2) = ""

\* the first cell is "artist", the second cell is "song", or either is empty
SkipOwnLabel(e) ==
    \/ CellText(e.c1) = "artist"
    \/ CellText(e.c2) = "song"
    \/ CellText(e.c1) = ""
    \/ CellText(e.c2) = ""

\* C8 as stated: the row loop skips a pair when either cell is "artist" or
\* "song", whichever the column, or is empty; every other pair yields one
\* track, in source order.
C8_SkipEitherLabel ==
    pc = "trk_out" => TracksMatch(trkPrimary, trkHtml, SkipEitherLabel)

\* C8 amended: the row loop skips a pair when its first cell is "artist", its
\* second cell is "song", or either cell is empty; every other pair yields one
\* track, in source order.
C8_SkipOwnLabel ==
    pc = "trk_out" => TracksMatch(trkPrimary, trkHtml, SkipOwnLabel)

\* a label in the other column's cell is kept as a track, after a skipped header
C8_Witness ==
    /\ pc = "trk_out"
    /\ Len(trkHtml) = 2
    /\ trkHtml[1] = Row("Artist", "SONG")
    /\ trkHtml[2] = Row("SONG", "Artist")
    /\ trkPrimary = <<[title |-> "artist", artist |-> "song"]>>

\* C9: at most one request is in flight, a request is issued only after the
\* delay of the one before it has completed, and no detail page is requested
\* before every listing page was.
C9_PacedSequential ==
    /\ inFlight \in {0, 1}
    /\ inFlight = 1 => delays = requests - 1
    /\ inFlight = 0 => delays \in {requests - 1, requests}
    /\ (inFlight = 0 /\ pc \in {"p1_loop", "p2_loop", "done"}) => delays = requests
    /\ detailRequests >= 1 => requests - detailRequests = totalPages

\* the second detail page is being fetched after the first one failed
C9_Witness ==
    /\ pc = "p2_fetch"
    /\ inFlight = 1
    /\ detailRequests = 2
    /\ lastMix.kind = "failed"
    /\ requests = totalPages + 2
    /\ delays = totalPages + 1

\* C10: every persisted record has a non-empty title and every track of it a
\* non-empty title and artist.
TracksNonEmpty(tracks) ==
    \A k \in 1..Len(tracks) : tracks[k].title # "" /\ tracks[k].artist # ""

C10_FieldsNonEmpty ==
    \A data \in FileDatas :
        /\ data.title # ""
        /\ TracksNonEmpty(data.tracks)
        /\ "sideA" \in DOMAIN data => TracksNonEmpty(data.sideA)
        /\ "sideB" \in DOMAIN data => TracksNonEmpty(data.sideB)

====
